---------------------------- MODULE Spec2Model ----------------------------
(***************************************************************************)
(* Pose analysis backend: POST /analyze/image (main.py) and analyze_pose   *)
(* (analysis/pose_analysis.py).                                            *)
(*                                                                         *)
(* A request reads its upload, then runs analyze_pose synchronously on the *)
(* event loop: decode the bytes, enter the `with mp_pose.Pose(...)` block, *)
(* hand a converted buffer to pose.process, branch on the landmarks,       *)
(* format them, leave the block, return.  The image decoder and the pose   *)
(* network are external libraries; they are modelled by small stand-ins    *)
(* (PilOpen, Detect) that the adapter never looks inside.                  *)
(***************************************************************************)
EXTENDS Integers, Sequences, FiniteSets, TLC

VARIABLES
    pc,         \* [Requests -> position of the request in the handler]
    sent,       \* the bytes the client uploaded (the UploadFile's content)
    contents,   \* main.py: local `contents`
    image_np,   \* pose_analysis.py: local `image_np` (decoded RGB grid)
    pose,       \* the Pose object bound by the with statement
    fed,        \* the buffer given to pose.process
    results,    \* results.pose_landmarks
    keypoints,  \* local `keypoints`
    outcome,    \* how analyze_pose ended: a returned dict or a raised error
    response,   \* what the route handler gave the framework
    calls,      \* per request: Pose objects acquired / process calls / closes
    loop,       \* the request running on the event loop (0: none)
    last        \* an earlier completed call, kept for comparison

vars == <<pc, sent, contents, image_np, pose, fed, results, keypoints,
          outcome, response, calls, loop, last>>

-----------------------------------------------------------------------------
(* Bounds *)

NumReq == 2         \* requests in flight at once
MaxLen == 3         \* bytes in an upload

Requests == 1..NumReq
Byte     == 0..1
Uploads  == UNION {[1..n -> Byte] : n \in 0..MaxLen}

-----------------------------------------------------------------------------
(* Python values *)

None       == [tag |-> "None"]
NoLoop     == 0
NoBytes    == <<>>
NoGrid     == <<>>

Unset      == [tag |-> "unset"]

(* Floats: the integer v stands for the float v / 2, so the closed interval *)
(* [0,1] is 0..2.                                                           *)
UnitInterval == 0..2

-----------------------------------------------------------------------------
(* The image decoder (PIL), a stand-in: an empty payload and a payload of   *)
(* the wrong size are not images; one byte is a one-pixel grayscale ("L")   *)
(* image; groups of three bytes are the pixels of an RGB image.             *)

Decodable(bytes) ==
    \/ Len(bytes) = 1
    \/ Len(bytes) > 0 /\ Len(bytes) % 3 = 0

PilOpen(bytes) ==
    IF Len(bytes) = 1
    THEN [mode |-> "L", px |-> <<bytes[1]>>]
    ELSE [mode |-> "RGB",
          px   |-> [i \in 1..(Len(bytes) \div 3) |->
                      <<bytes[3*i - 2], bytes[3*i - 1], bytes[3*i]>>]]

(* Image.convert("RGB"): a grayscale value fills the three channels. *)
ConvertRGB(img) ==
    IF img.mode = "L"
    THEN [i \in 1..Len(img.px) |-> <<img.px[i], img.px[i], img.px[i]>>]
    ELSE img.px

(* Line 10-11: image_np = np.array(Image.open(...).convert("RGB")) *)
DecodeImage(bytes) == ConvertRGB(PilOpen(bytes))

(* cv2.cvtColor(image_np, cv2.COLOR_RGB2BGR): first and third channel of    *)
(* every pixel change places.                                               *)
CvtColorRGB2BGR(grid) ==
    [i \in 1..Len(grid) |-> <<grid[i][3], grid[i][2], grid[i][1]>>]

(* Line 14: the argument of pose.process *)
ModelInput(grid) == CvtColorRGB2BGR(grid)

-----------------------------------------------------------------------------
(* The pose network (MediaPipe), a stand-in.  It reads its buffer as RGB.   *)
(* With no red in the first pixel it reports no pose (pose_landmarks is     *)
(* None); otherwise it reports a NormalizedLandmarkList message that holds  *)
(* at least one landmark (the library's list is never empty: it is its      *)
(* whole schema, here scaled down to one or two landmarks), with values     *)
(* that depend on the green and blue channels.  Coordinates of off-frame    *)
(* landmarks leave [0,1], as the network's do.                              *)

Landmark(i, g, b) ==
    [x |-> 2 * i + g, y |-> b - 2 * i, z |-> 0 - (i + 1), visibility |-> 2 - i]

LandmarkList(lms) == [tag |-> "NormalizedLandmarkList", landmark |-> lms]

Detect(buf) ==
    LET p == buf[1]
        n == IF p[2] + p[3] = 0 THEN 1 ELSE p[2] + p[3]
    IN  IF p[1] = 0
        THEN None
        ELSE LandmarkList([k \in 1..n |-> Landmark(k - 1, p[2], p[3])])

(* Line 13: mp_pose.Pose(static_image_mode=True), a fresh object per call *)
NewPose == [tag |-> "Pose", static_image_mode |-> TRUE, open |-> TRUE]

(* Pose.__exit__ -> close() *)
ClosePose(p) == [p EXCEPT !.open = FALSE]

(* Line 16: `not results.pose_landmarks`.  A message object defines neither *)
(* __bool__ nor __len__, so only None is falsy.                             *)
Falsy(v) == v.tag = "None"

-----------------------------------------------------------------------------
(* analyze_pose, lines 16-30 *)

NoPoseResultAsEmptySuccess == [success |-> TRUE, keypoints |-> <<>>]

NoPoseResultWithKeypoints ==
    [success |-> FALSE, message |-> "No pose detected", keypoints |-> <<>>]

(* Line 17 *)
NoPoseResult == [success |-> FALSE, message |-> "No pose detected"]

(* The list of an earlier call, were it kept between calls *)
KeypointsCarried ==
    IF last.tag = "call" /\ last.response.kind = "return"
                         /\ last.response.value.success
    THEN last.response.value.keypoints
    ELSE <<>>

(* Line 20: keypoints = [] *)
KeypointsInit == <<>>

EnumerateFromOne(lms) == [i \in 1..Len(lms) |-> <<i, lms[i]>>]

(* Line 21: enumerate(...) pairs every landmark with its position, from 0 *)
Enumerate(lms) == [i \in 1..Len(lms) |-> <<i - 1, lms[i]>>]

Clamp(v) == IF v < 0 THEN 0 ELSE IF v > 2 THEN 2 ELSE v

KeypointRecordClamped(id, landmark) ==
    [id |-> id, x |-> Clamp(landmark.x), y |-> Clamp(landmark.y),
     z |-> landmark.z, visibility |-> Clamp(landmark.visibility)]

KeypointRecordSwapped(id, landmark) ==
    [id |-> id, x |-> landmark.y, y |-> landmark.x, z |-> landmark.z,
     visibility |-> landmark.visibility]

(* Lines 22-28: the record appended for one (id, landmark) pair *)
KeypointRecord(id, landmark) ==
    [id |-> id, x |-> landmark.x, y |-> landmark.y, z |-> landmark.z,
     visibility |-> landmark.visibility]

(* Lines 21-28: the loop, one append per pair, in order *)
RECURSIVE AppendFrom(_, _, _)
AppendFrom(acc, pairs, i) ==
    IF i > Len(pairs)
    THEN acc
    ELSE AppendFrom(Append(acc, KeypointRecord(pairs[i][1], pairs[i][2])),
                    pairs, i + 1)

FormatKeypoints(lms) == AppendFrom(KeypointsInit, Enumerate(lms), 1)

(* Lines 21-28 cut short: the records appended before the one at position  *)
(* k (from 1) fails to be built                                             *)
KeypointsBefore(lms, k) ==
    AppendFrom(KeypointsInit, SubSeq(Enumerate(lms), 1, k - 1), 1)

(* Line 30 *)
SuccessResult(kps) == [success |-> TRUE, keypoints |-> kps]

Returned(value) == [kind |-> "return", value |-> value]
Raised(error)   == [kind |-> "raise", error |-> error]

DecodeFailureSwallowed == Returned(NoPoseResult)

(* Line 10 has no try/except: the decoder's error leaves analyze_pose. *)
DecodeFailure == Raised("UnidentifiedImageError")

LeaveWithOnReturnOnly(p, o) == IF o.kind = "raise" THEN p ELSE ClosePose(p)

(* The with statement's __exit__, run on a return and on an exception alike *)
LeaveWith(p, o) == ClosePose(p)

-----------------------------------------------------------------------------
(* main.py *)

ReadFileShared(r) == sent[CHOOSE q \in Requests : pc[q] = "await"]

(* Line 8: contents = await file.read(), this request's upload in full *)
ReadFile(r) == sent[r]

(* Lines 9-10: the result is returned as it is; an exception propagates *)
HandlerOutcome(o) == IF o.kind = "raise" THEN o ELSE Returned(o.value)

-----------------------------------------------------------------------------
NoCalls == [acquired |-> 0, invoked |-> 0, released |-> 0]

Init ==
    /\ pc        = [r \in Requests |-> "idle"]
    /\ sent      = [r \in Requests |-> NoBytes]
    /\ contents  = [r \in Requests |-> NoBytes]
    /\ image_np  = [r \in Requests |-> NoGrid]
    /\ pose      = [r \in Requests |-> Unset]
    /\ fed       = [r \in Requests |-> NoGrid]
    /\ results   = [r \in Requests |-> Unset]
    /\ keypoints = [r \in Requests |-> <<>>]
    /\ outcome   = [r \in Requests |-> Unset]
    /\ response  = [r \in Requests |-> Unset]
    /\ calls     = [r \in Requests |-> NoCalls]
    /\ loop      = NoLoop
    /\ last      = Unset

(* A client posts a file to /analyze/image. *)
Arrive(r) ==
    /\ pc[r] = "idle"
    /\ \E b \in Uploads : sent' = [sent EXCEPT ![r] = b]
    /\ pc' = [pc EXCEPT ![r] = "await"]
    /\ UNCHANGED <<contents, image_np, pose, fed, results, keypoints,
                   outcome, response, calls, loop, last>>

(* main.py line 8.  The coroutine resumes when the event loop is free and   *)
(* then runs without an await until it returns.                             *)
Read(r) ==
    /\ pc[r] = "await"
    /\ loop = NoLoop
    /\ loop' = r
    /\ contents' = [contents EXCEPT ![r] = ReadFile(r)]
    /\ pc' = [pc EXCEPT ![r] = "call"]
    /\ UNCHANGED <<sent, image_np, pose, fed, results, keypoints,
                   outcome, response, calls, last>>

(* pose_analysis.py lines 10-11 *)
Decode(r) ==
    /\ pc[r] = "call"
    /\ IF Decodable(contents[r])
       THEN /\ image_np' = [image_np EXCEPT ![r] = DecodeImage(contents[r])]
            /\ pc' = [pc EXCEPT ![r] = "with"]
            /\ UNCHANGED outcome
       ELSE /\ outcome' = [outcome EXCEPT ![r] = DecodeFailure]
            /\ pc' = [pc EXCEPT ![r] = "return"]
            /\ UNCHANGED image_np
    /\ UNCHANGED <<sent, contents, pose, fed, results, keypoints,
                   response, calls, loop, last>>

(* Line 13: with mp_pose.Pose(static_image_mode=True) as pose *)
Enter(r) ==
    /\ pc[r] = "with"
    /\ pose' = [pose EXCEPT ![r] = NewPose]
    /\ calls' = [calls EXCEPT ![r].acquired = @ + 1]
    /\ pc' = [pc EXCEPT ![r] = "process"]
    /\ UNCHANGED <<sent, contents, image_np, fed, results, keypoints,
                   outcome, response, loop, last>>

(* Line 14: results = pose.process(cv2.cvtColor(image_np, COLOR_RGB2BGR)) *)
Process(r) ==
    /\ pc[r] = "process"
    /\ pose[r].open
    /\ fed' = [fed EXCEPT ![r] = ModelInput(image_np[r])]
    /\ results' = [results EXCEPT ![r] = Detect(fed'[r])]
    /\ calls' = [calls EXCEPT ![r].invoked = @ + 1]
    /\ pc' = [pc EXCEPT ![r] = "branch"]
    /\ UNCHANGED <<sent, contents, image_np, pose, keypoints,
                   outcome, response, loop, last>>

(* Line 14, the library raising from process *)
ProcessRaises(r) ==
    /\ pc[r] = "process"
    /\ pose[r].open
    /\ fed' = [fed EXCEPT ![r] = ModelInput(image_np[r])]
    /\ calls' = [calls EXCEPT ![r].invoked = @ + 1]
    /\ outcome' = [outcome EXCEPT ![r] = Raised("RuntimeError")]
    /\ pc' = [pc EXCEPT ![r] = "exit"]
    /\ UNCHANGED <<sent, contents, image_np, pose, results, keypoints,
                   response, loop, last>>

(* Lines 16-30 *)
Branch(r) ==
    /\ pc[r] = "branch"
    /\ IF Falsy(results[r])
       THEN /\ outcome' = [outcome EXCEPT ![r] = Returned(NoPoseResult)]
            /\ UNCHANGED keypoints
       ELSE /\ keypoints' = [keypoints EXCEPT
                               ![r] = FormatKeypoints(results[r].landmark)]
            /\ outcome' = [outcome EXCEPT
                             ![r] = Returned(SuccessResult(keypoints'[r]))]
    /\ pc' = [pc EXCEPT ![r] = "exit"]
    /\ UNCHANGED <<sent, contents, image_np, pose, fed, results,
                   response, calls, loop, last>>

(* Lines 20-28, an exception while the record at position k is built: the  *)
(* list holds the records appended before it.                               *)
FormatRaises(r) ==
    /\ pc[r] = "branch"
    /\ ~Falsy(results[r])
    /\ \E k \in 1..Len(results[r].landmark) :
         keypoints' = [keypoints EXCEPT
                         ![r] = KeypointsBefore(results[r].landmark, k)]
    /\ outcome' = [outcome EXCEPT ![r] = Raised("MemoryError")]
    /\ pc' = [pc EXCEPT ![r] = "exit"]
    /\ UNCHANGED <<sent, contents, image_np, pose, fed, results,
                   response, calls, loop, last>>

(* Leaving the with block of line 13, by return or by exception *)
Exit(r) ==
    /\ pc[r] = "exit"
    /\ pose' = [pose EXCEPT ![r] = LeaveWith(pose[r], outcome[r])]
    /\ calls' = [calls EXCEPT
                   ![r].released = @ + (IF pose'[r].open THEN 0 ELSE 1)]
    /\ pc' = [pc EXCEPT ![r] = "return"]
    /\ UNCHANGED <<sent, contents, image_np, fed, results, keypoints,
                   outcome, response, loop, last>>

(* main.py lines 9-10 *)
Respond(r) ==
    /\ pc[r] = "return"
    /\ response' = [response EXCEPT ![r] = HandlerOutcome(outcome[r])]
    /\ pc' = [pc EXCEPT ![r] = "sent"]
    /\ UNCHANGED <<sent, contents, image_np, pose, fed, results, keypoints,
                   outcome, calls, loop, last>>

(* The handler's frame is gone: its locals are dropped, the loop is free. *)
Drop(r) ==
    /\ pc[r] = "sent"
    /\ pc'        = [pc EXCEPT ![r] = "idle"]
    /\ sent'      = [sent EXCEPT ![r] = NoBytes]
    /\ contents'  = [contents EXCEPT ![r] = NoBytes]
    /\ image_np'  = [image_np EXCEPT ![r] = NoGrid]
    /\ pose'      = [pose EXCEPT ![r] = Unset]
    /\ fed'       = [fed EXCEPT ![r] = NoGrid]
    /\ results'   = [results EXCEPT ![r] = Unset]
    /\ keypoints' = [keypoints EXCEPT ![r] = <<>>]
    /\ outcome'   = [outcome EXCEPT ![r] = Unset]
    /\ response'  = [response EXCEPT ![r] = Unset]
    /\ calls'     = [calls EXCEPT ![r] = NoCalls]
    /\ loop'      = NoLoop

Finish(r) == Drop(r) /\ UNCHANGED last

(* The same, with the finished call remembered (or an older one kept). *)
CallRecord(r) == [tag |-> "call", bytes |-> sent[r], response |-> response[r]]

FinishLogged(r) ==
    /\ Drop(r)
    /\ \E keep \in BOOLEAN :
         last' = IF keep /\ last # Unset THEN last ELSE CallRecord(r)

Step(r) ==
    \/ Arrive(r)
    \/ Read(r)
    \/ Decode(r)
    \/ Enter(r)
    \/ Process(r)
    \/ ProcessRaises(r)
    \/ Branch(r)
    \/ FormatRaises(r)
    \/ Exit(r)
    \/ Respond(r)

Next == \E r \in Requests : Step(r) \/ Finish(r)

Spec == Init /\ [][Next]_vars

(* One caller after another, each finished call available for comparison *)
NextSeq == \E r \in {1} : Step(r) \/ FinishLogged(r)

SpecSeq == Init /\ [][NextSeq]_vars

-----------------------------------------------------------------------------
(* Properties *)

(* analyze_pose has executed its return or raise statement *)
Ended(r) == pc[r] \in {"exit", "return", "sent"}

ReturnedDict(r) == Ended(r) /\ outcome[r].kind = "return"

Succeeded(r) == ReturnedDict(r) /\ outcome[r].value.success

(* C1: when the image decodes and the model reports no pose (pose_landmarks *)
(* is None), analyze_pose returns, without raising, exactly the two-field   *)
(* dict {"success": False, "message": "No pose detected"}: no "keypoints"   *)
(* field, the same message every time; the route hands that dict on.        *)
C1_NoPoseIsFailureResult ==
    \A r \in Requests :
        (Ended(r) /\ results[r].tag = "None") =>
            /\ outcome[r].kind = "return"
            /\ DOMAIN outcome[r].value = {"success", "message"}
            /\ outcome[r].value.success = FALSE
            /\ outcome[r].value.message = "No pose detected"
            /\ pc[r] = "sent" => response[r] = outcome[r]

C1_Witness ==
    \E r \in Requests :
        /\ pc[r] = "sent"
        /\ Decodable(sent[r])
        /\ results[r].tag = "None"
        /\ response[r].kind = "return"

(* C2: a successful call on a landmark sequence of length n returns n       *)
(* records, the record at position i (from 0) has id i and carries the      *)
(* values of the model's landmark at that position; on the model's          *)
(* 33-landmark schema the ids are 0..32.                                    *)
SchemaLandmarks == [i \in 1..33 |-> Landmark(0, 1, 1)]

SchemaIds ==
    LET kps == FormatKeypoints(SchemaLandmarks)
    IN  [i \in 1..Len(kps) |-> kps[i].id]

C2_IdsArePositions ==
    /\ \A r \in Requests :
         Succeeded(r) =>
            LET lms == results[r].landmark
                kps == outcome[r].value.keypoints
            IN  /\ Len(kps) = Len(lms)
                /\ \A i \in 1..Len(lms) :
                     /\ kps[i].id = i - 1
                     /\ <<kps[i].x, kps[i].y, kps[i].z, kps[i].visibility>>
                          = <<lms[i].x, lms[i].y, lms[i].z, lms[i].visibility>>
    /\ SchemaIds = [i \in 1..33 |-> i - 1]

C2_Witness ==
    \E r \in Requests :
        /\ pc[r] = "sent"
        /\ response[r].kind = "return"
        /\ response[r].value.success
        /\ Len(response[r].value.keypoints) = 2
        /\ response[r].value.keypoints[2].id = 1

(* C3: an upload that is not an image (the empty payload included) ends in  *)
(* a server error: the decoder's error leaves analyze_pose and the route    *)
(* handler as it was raised, no Pose object is created or invoked, and no   *)
(* dict with a "success" field is produced.                                 *)
C3_UndecodableIsServerError ==
    \A r \in Requests :
        (pc[r] # "idle" /\ ~Decodable(sent[r])) =>
            /\ pc[r] \in {"await", "call", "return", "sent"}
            /\ pose[r] = Unset
            /\ calls[r].acquired = 0
            /\ calls[r].invoked = 0
            /\ pc[r] \in {"return", "sent"} =>
                 /\ outcome[r].kind = "raise"
                 /\ outcome[r].error = "UnidentifiedImageError"
            /\ pc[r] = "sent" => response[r] = outcome[r]

C3_Witness ==
    \E r \in Requests :
        /\ pc[r] = "sent"
        /\ Len(sent[r]) = 2
        /\ response[r].kind = "raise"

(* C4: the buffer handed to pose.process is in the channel order the model  *)
(* requires, RGB: its red, green and blue channels sit where they sit in    *)
(* the RGB image produced by decoding.                                      *)
C4_ModelInputIsRGB ==
    \A r \in Requests :
        calls[r].invoked > 0 => fed[r] = DecodeImage(sent[r])

(* C5: a result with success = true carries a non-empty keypoints list;     *)
(* when the model's output holds zero landmarks the result is the failure   *)
(* variant, never a success with an empty list.                             *)
ZeroLandmarks(pl) ==
    \/ pl.tag = "None"
    \/ pl.tag = "NormalizedLandmarkList" /\ Len(pl.landmark) = 0

C5_SuccessIsNonEmpty ==
    \A r \in Requests :
        /\ Succeeded(r) => Len(outcome[r].value.keypoints) > 0
        /\ (ReturnedDict(r) /\ ZeroLandmarks(results[r])) =>
               outcome[r].value.success = FALSE

C5_Witness ==
    \E r \in Requests :
        /\ pc[r] = "sent"
        /\ Succeeded(r)
        /\ Len(results[r].landmark) = 1
        /\ Len(response[r].value.keypoints) = 1

(* C6: in a successful call every record's x, y, z and visibility are the   *)
(* model's values for the landmark at the same position, unclamped,         *)
(* unscaled, not swapped, none dropped.                                     *)
C6_FieldsPassThrough ==
    \A r \in Requests :
        Succeeded(r) =>
            LET lms == results[r].landmark
                kps == outcome[r].value.keypoints
            IN  \A i \in 1..Len(kps) :
                    /\ DOMAIN kps[i] = {"id", "x", "y", "z", "visibility"}
                    /\ kps[i].x = lms[i].x
                    /\ kps[i].y = lms[i].y
                    /\ kps[i].z = lms[i].z
                    /\ kps[i].visibility = lms[i].visibility

C6_Witness ==
    \E r \in Requests :
        /\ pc[r] = "sent"
        /\ Succeeded(r)
        /\ \E i \in 1..Len(response[r].value.keypoints) :
             LET k == response[r].value.keypoints[i]
             IN  /\ k.x \notin UnitInterval
                 /\ k.x # k.y
                 /\ k.z < 0

(* C7: a call that decodes its input creates one Pose object, calls process *)
(* once and has closed the object when it ends, whether it returns a        *)
(* success, returns the failure variant or raises from inference or         *)
(* formatting; a Pose object is open only inside the with block, and none   *)
(* is open when no request is running.                                      *)
PoseOpen(r) == pose[r].tag = "Pose" /\ pose[r].open

C7_PoseScopedToCall ==
    /\ \A r \in Requests :
         /\ (pc[r] \in {"return", "sent"} /\ Decodable(sent[r])) =>
               /\ calls[r] = [acquired |-> 1, invoked |-> 1, released |-> 1]
               /\ pose[r].tag = "Pose"
               /\ ~pose[r].open
         /\ PoseOpen(r) => pc[r] \in {"process", "branch", "exit"}
         /\ pc[r] = "exit" => PoseOpen(r)
         /\ calls[r].acquired <= 1
         /\ calls[r].invoked <= calls[r].acquired
         /\ calls[r].released <= calls[r].acquired
    /\ loop = NoLoop => \A r \in Requests : ~PoseOpen(r)

C7_Witness ==
    \E r \in Requests :
        /\ pc[r] = "return"
        /\ outcome[r].kind = "raise"
        /\ outcome[r].error = "RuntimeError"
        /\ calls[r].released = 1
        /\ ~pose[r].open

(* C8: requests served concurrently do not touch one another's state: the   *)
(* handler passes analyze_pose the bytes of its own upload, returns what    *)
(* analyze_pose gave it, the response is one the same bytes produce when    *)
(* the request runs alone, and a step of one request leaves every other     *)
(* request's data as it was.                                                *)
ResultOf(pl) ==
    IF Falsy(pl) THEN NoPoseResult
                 ELSE SuccessResult(FormatKeypoints(pl.landmark))

AloneResponses(bytes) ==
    IF ~Decodable(bytes)
    THEN {Raised("UnidentifiedImageError")}
    ELSE LET pl == Detect(ModelInput(DecodeImage(bytes)))
         IN  {Returned(ResultOf(pl)), Raised("RuntimeError")}
               \cup (IF Falsy(pl) \/ Len(pl.landmark) = 0
                     THEN {} ELSE {Raised("MemoryError")})

Locals(r) ==
    <<sent[r], contents[r], image_np[r], pose[r], fed[r], results[r],
      keypoints[r], outcome[r], response[r], calls[r]>>

C8_Isolated ==
    \A r \in Requests :
        /\ pc[r] \in {"call", "with", "process", "branch", "exit",
                      "return", "sent"} => contents[r] = sent[r]
        /\ pc[r] = "sent" =>
              /\ response[r] = outcome[r]
              /\ response[r] \in AloneResponses(sent[r])

C8_OthersUntouched ==
    \A r \in Requests : pc'[r] = pc[r] => Locals(r)' = Locals(r)

C8_RequestsIndependent == []C8_Isolated /\ [][C8_OthersUntouched]_vars

C8_Witness ==
    \E r, q \in Requests :
        /\ pc[r] = "sent"
        /\ pc[q] = "await"
        /\ Decodable(sent[r])
        /\ Decodable(sent[q])
        /\ sent[q] # sent[r]
        /\ response[r].kind = "return"
        /\ response[r].value.success

(* C9: two calls of analyze_pose on the same image bytes, whatever was      *)
(* called between them, give the same success flag, the same number of      *)
(* keypoints and the same ids in the same order.                            *)
Ids(kps) == [i \in 1..Len(kps) |-> kps[i].id]

C9_SameBytesSameShape ==
    \A r \in Requests :
        (/\ pc[r] = "sent"
         /\ last.tag = "call"
         /\ last.bytes = sent[r]
         /\ last.response.kind = "return"
         /\ response[r].kind = "return") =>
            LET a == last.response.value
                b == response[r].value
            IN  /\ a.success = b.success
                /\ a.success =>
                     /\ Len(a.keypoints) = Len(b.keypoints)
                     /\ Ids(a.keypoints) = Ids(b.keypoints)

C9_Witness ==
    \E r \in Requests :
        /\ pc[r] = "sent"
        /\ last.tag = "call"
        /\ last.bytes = sent[r]
        /\ last.response.kind = "return"
        /\ response[r].kind = "return"
        /\ response[r].value.success
        /\ Len(response[r].value.keypoints) = 2

(* C10 as stated: in every success response x, y and visibility of every    *)
(* keypoint lie in [0,1].                                                   *)
C10_AllInUnitInterval ==
    \A r \in Requests :
        Succeeded(r) =>
            \A i \in 1..Len(outcome[r].value.keypoints) :
                LET k == outcome[r].value.keypoints[i]
                IN  /\ k.x \in UnitInterval
                    /\ k.y \in UnitInterval
                    /\ k.visibility \in UnitInterval

(* C10 amended: in every success response a keypoint's x, y or visibility   *)
(* lies in [0,1] exactly when the model's value for that landmark does, and *)
(* z is a number; the adapter brings no value into the interval and takes   *)
(* none out of it.                                                          *)
C10_RangeIsTheModels ==
    \A r \in Requests :
        Succeeded(r) =>
            LET lms == results[r].landmark
                kps == outcome[r].value.keypoints
            IN  \A i \in 1..Len(kps) :
                    /\ kps[i].x \in UnitInterval <=> lms[i].x \in UnitInterval
                    /\ kps[i].y \in UnitInterval <=> lms[i].y \in UnitInterval
                    /\ kps[i].visibility \in UnitInterval
                         <=> lms[i].visibility \in UnitInterval
                    /\ kps[i].z \in Int

C10_Witness ==
    \E r \in Requests :
        /\ pc[r] = "sent"
        /\ Succeeded(r)
        /\ \E i \in 1..Len(response[r].value.keypoints) :
             /\ response[r].value.keypoints[i].y \notin UnitInterval
             /\ results[r].landmark[i].y \notin UnitInterval
        /\ \E i \in 1..Len(response[r].value.keypoints) :
             response[r].value.keypoints[i].y \in UnitInterval

=============================================================================
